---------------------------- MODULE Spec2Model ----------------------------
(***************************************************************************)
(* A model of carrot-ai: the ConversationHistory buffer, the retry and     *)
(* fallback policy of CarrotAI.chat, the CarrotAgent.run loop and the      *)
(* event protocol of CarrotAI.chatStream.                                  *)
(*                                                                         *)
(* Each component has its own specification over the shared variables:     *)
(*   SpecHistory  ConversationHistory under arbitrary appends              *)
(*   SpecChat     one chat() call against a nondeterministic backend       *)
(*   SpecAgent    one CarrotAgent.run() on a ConversationHistory           *)
(*   SpecStream   one chatStream() sequence                                *)
(***************************************************************************)
EXTENDS Integers, Sequences, FiniteSets, TLC

(***************************************************************************)
(* Bounds of the model                                                     *)
(***************************************************************************)
MaxCap == 3          \* largest maxMessages option drawn
MaxAppends == 5      \* addMessage calls made on a bare ConversationHistory
MaxRetries == 2      \* largest explicit retries option drawn
MaxFallbacks == 2    \* longest fallbackModels list drawn
MaxAgentCap == 2     \* largest maxMessages of the ConversationHistory given to an agent
MaxCalls == 2        \* most tool calls in one model response
MaxChunks == 4       \* most chunks (Bedrock) or lines (Ollama) a stream carries
MaxTokens == 1       \* the positive token count a backend reports
MaxOverlap == 2      \* most addMessage calls made on the history while a chat() call awaits

(***************************************************************************)
(* Program constants                                                       *)
(***************************************************************************)
DefaultMaxMessages == 100
DefaultRetries == 3
MaxIterations == 10

VARIABLES
    \* ConversationHistory
    messages,        \* private messages: Message[]
    maxMessages,     \* private maxMessages: number
    appended,        \* history variable: every message passed to addMessage since construction or clear()
    seqNo,           \* number of addMessage calls made so far
    \* CarrotAI.chat
    provider,        \* config.provider
    retries,         \* const retries (options.retries, default 3)
    fallbackModels,  \* const fallbackModels (default [])
    cpc,             \* where the chat() call stands
    phase,           \* 0: runWithRetry(model); i >= 1: runWithRetry(fallbackModels[i])
    attemptNumber,   \* p-retry's attempt number within the current runWithRetry
    invoked,         \* history variable: the backend invocations made, in order
    primaryError,    \* the error caught from runWithRetry(model)
    chatResult,      \* what chat() returned or raised; the error a chatStream generator raised
    usageCount,      \* number of triggerUsage calls
    usage,           \* the usage of the response returned or of the usage event yielded last
    settled,         \* history variable: number of invocations whose outcome chat() has observed
    firstStatus,     \* history variable: HTTP outcome of the first invocation
    allTransient,    \* history variable: every invocation so far failed with no status or 5xx
    \* CarrotAgent.run
    apc,             \* where the run() call stands
    iterations,      \* let iterations
    chatCalls,       \* history variable: number of chat() calls issued by run()
    toolTurns,       \* history variable: number of responses that carried tool calls
    response,        \* const response of the current turn
    toolState,       \* the promises given to Promise.all, one per tool call
    executed,        \* history variable: ids of the tool calls of this turn whose execute was invoked
    lastAdded,       \* history variable: the message run() passed to addMessage last
    runResult,       \* what run() returned or raised
    \* CarrotAI.chatStream
    spc,             \* where the generator stands
    script,          \* what the backend sends: Bedrock chunks, or Ollama lines
    cursor,          \* chunks (Bedrock) or wire symbols (Ollama) consumed so far
    events,          \* the StreamEvents yielded so far
    failure,         \* history variable: why the stream raised
    aligned,         \* history variable: every read so far ended at the end of a line
    \* options.messages of a chat() call given history.getMessages()
    request,         \* the elements of the array options.messages refers to
    shared,          \* that array is the one this.messages of the ConversationHistory refers to
    snapshot,        \* history variable: the elements of options.messages when chat() was called
    sent             \* history variable: the messages read from options.messages by each invocation

histVars == <<messages, maxMessages, appended, seqNo>>

chatVars == <<provider, retries, fallbackModels, cpc, phase, attemptNumber, invoked,
              primaryError, chatResult, usageCount, usage, settled, firstStatus, allTransient>>

agentVars == <<apc, iterations, chatCalls, toolTurns, response, toolState, executed, lastAdded,
              runResult>>

streamVars == <<spc, script, cursor, events, failure, aligned>>

snapVars == <<request, shared, snapshot, sent>>

vars == <<histVars, chatVars, agentVars, streamVars, snapVars>>

(***************************************************************************)
(* Generic helpers                                                         *)
(***************************************************************************)
Max(a, b) == IF a >= b THEN a ELSE b

Min(a, b) == IF a <= b THEN a ELSE b

\* Array.prototype.slice(start) with the end omitted: a negative start counts
\* from the end, and -0 is 0 (the whole array).
Slice(s, start) ==
    LET len == Len(s)
        from == IF start < 0 THEN Max(len + start, 0) ELSE Min(start, len)
    IN  SubSeq(s, from + 1, len)

(***************************************************************************)
(* types.ts                                                                *)
(***************************************************************************)
MessageRole == {"user", "assistant", "system", "tool"}

\* toolCalls?: undefined is the empty sequence
NoToolCalls == <<>>

\* content: string | ToolResult[]. isArray tells the two apart, as
\* typeof m.content === 'string' and Array.isArray(m.content) do
TextContent(c) == [isArray |-> FALSE, value |-> c]

ResultsContent(rs) == [isArray |-> TRUE, value |-> rs]

Msg(r, c, tcs) == [role |-> r, content |-> c, toolCalls |-> tcs]

(***************************************************************************)
(* ConversationHistory                                                     *)
(***************************************************************************)
IsSystem(m) == m.role = "system"

IsOther(m) == m.role # "system"

\* constructor: this.maxMessages = options.maxMessages || 100  (0 stands for an unset option)
HistoryCap(opt) == IF opt = 0 THEN DefaultMaxMessages ELSE opt

PruneKeepsOnZero(msgs, cap) ==
    IF Len(msgs) > cap
    THEN LET systemMessages == SelectSeq(msgs, IsSystem)
             otherMessages == SelectSeq(msgs, IsOther)
             toKeep == cap - Len(systemMessages)
         IN  IF toKeep >= 0
             THEN systemMessages \o Slice(otherMessages, -toKeep)
             ELSE Slice(systemMessages, -cap)
    ELSE msgs

PruneKeepsOldest(msgs, cap) ==
    IF Len(msgs) > cap
    THEN LET systemMessages == SelectSeq(msgs, IsSystem)
             otherMessages == SelectSeq(msgs, IsOther)
             toKeep == cap - Len(systemMessages)
         IN  IF toKeep > 0
             THEN systemMessages \o SubSeq(otherMessages, 1, toKeep)
             ELSE Slice(systemMessages, -cap)
    ELSE msgs

\* private prune()
Prune(msgs, cap) ==
    IF Len(msgs) > cap
    THEN LET systemMessages == SelectSeq(msgs, IsSystem)
             otherMessages == SelectSeq(msgs, IsOther)
             toKeep == cap - Len(systemMessages)
         IN  IF toKeep > 0
             THEN systemMessages \o Slice(otherMessages, -toKeep)
             ELSE Slice(systemMessages, -cap)
    ELSE msgs

\* addMessage(message): push, then prune
AddMessage(msgs, cap, m) == Prune(Append(msgs, m), cap)

\* this.messages.push(message), seen through an options.messages that refers
\* to the same array
RequestAfterPush(m) == IF shared THEN Append(request, m) ELSE request

\* prune() assigns a new array to this.messages when the length exceeds
\* the cap, and leaves the array in place otherwise
SharedAfterPrune(ms, cap) == shared /\ Len(ms) <= cap

\* no chat() call holds the array of a ConversationHistory
NoRequest ==
    /\ request = <<>>
    /\ shared = FALSE
    /\ snapshot = <<>>
    /\ sent = <<>>

HistoryStart ==
    /\ messages = <<>>
    /\ maxMessages \in {HistoryCap(opt) : opt \in 0..MaxCap}
    /\ appended = <<>>
    /\ seqNo = 0

\* a caller appends a message of any role; its content is the number of the call
HistoryAdd ==
    /\ seqNo < MaxAppends
    /\ \E r \in MessageRole :
          LET m == Msg(r, TextContent(seqNo + 1), NoToolCalls)
          IN  /\ messages' = AddMessage(messages, maxMessages, m)
              /\ appended' = Append(appended, m)
              /\ request' = RequestAfterPush(m)
              /\ shared' = SharedAfterPrune(Append(messages, m), maxMessages)
    /\ seqNo' = seqNo + 1
    /\ UNCHANGED <<maxMessages, chatVars, agentVars, streamVars, snapshot, sent>>

\* clear()
HistoryClear ==
    /\ messages # <<>>
    /\ messages' = <<>>
    /\ appended' = <<>>
    /\ shared' = FALSE
    /\ UNCHANGED <<maxMessages, seqNo, chatVars, agentVars, streamVars, request, snapshot, sent>>

HistoryNext == HistoryAdd \/ HistoryClear


(***************************************************************************)
(* CarrotAI.chat: retry and fallback                                       *)
(***************************************************************************)
Providers == {"bedrock", "ollama"}

\* the requested (or default) model and the pool fallbackModels is drawn from
PrimaryModel == "llama3"

FallbackPool == {"f1", "f2"}

\* HTTP outcomes of one backend invocation; NoStatus is a failure that carries
\* no HTTP status (network failure)
NoStatus == 0

FailureStatus == {NoStatus, 401, 403, 404, 429, 500}

\* a response with status 200 whose JSON body has no message member
OkNoMessage == 200

\* the ways one invocation can fail: invokeBedrock checks output.message
\* before it reads it (a failure without status), invokeOllama reads
\* result.message.content unchecked
FailureOutcomes(prov) == FailureStatus \cup (IF prov = "ollama" THEN {OkNoMessage} ELSE {})

IsTransientStatus(s) == s = NoStatus \/ s >= 500

\* no Usage has been built yet: not a value the adapters can build
NoUsage == [inputTokens |-> 0, outputTokens |-> 0, totalTokens |-> -1]

\* a token count as the backend reports it: left out (-1), zero or positive
ReportedCounts == {-1, 0, MaxTokens}

\* a total as the backend reports it: left out, or any sum of two counts
ReportedTotals == {-1, 0, MaxTokens, 2 * MaxTokens}

\* response.usage / chunk.metadata.usage of Bedrock
BedrockReports ==
    [inputTokens : ReportedCounts, outputTokens : ReportedCounts, totalTokens : ReportedTotals]

\* the counters of an Ollama result
OllamaReports == [prompt_eval_count : ReportedCounts, eval_count : ReportedCounts]

\* x || 0
OrZero(x) == IF x = -1 \/ x = 0 THEN 0 ELSE x

\* const usage: Usage = {...} of invokeBedrock and invokeBedrockStream
BedrockUsage(r) ==
    [inputTokens |-> OrZero(r.inputTokens),
     outputTokens |-> OrZero(r.outputTokens),
     totalTokens |-> OrZero(r.totalTokens)]

\* const usage: Usage = {...} of invokeOllama and invokeOllamaStream
OllamaUsage(r) ==
    [inputTokens |-> OrZero(r.prompt_eval_count),
     outputTokens |-> OrZero(r.eval_count),
     totalTokens |-> OrZero(r.prompt_eval_count) + OrZero(r.eval_count)]

\* the Usage values an invocation on the provider can produce
UsagesOf(prov) ==
    IF prov = "bedrock"
    THEN {BedrockUsage(r) : r \in BedrockReports}
    ELSE {OllamaUsage(r) : r \in OllamaReports}

NoError == [class |-> "none"]

\* where chat() has not been called
\* no chat() call has been made
NoChatCall ==
    /\ cpc = "idle"
    /\ phase = 0
    /\ attemptNumber = 0
    /\ invoked = <<>>
    /\ primaryError = NoError
    /\ chatResult = [kind |-> "none"]
    /\ usageCount = 0
    /\ usage = NoUsage
    /\ settled = 0
    /\ firstStatus = -1
    /\ allTransient = TRUE

ChatNotCalled ==
    /\ retries = 0
    /\ fallbackModels = <<>>
    /\ NoChatCall

ChatIdle == provider = "bedrock" /\ ChatNotCalled

\* const { retries = 3 } = options  (-1 stands for an unset option)
RetriesOf(opt) == IF opt = -1 THEN DefaultRetries ELSE opt

\* the model runWithRetry is called with in phase p
Candidate(p) == IF p = 0 THEN PrimaryModel ELSE fallbackModels[p]

\* the error an adapter throws for a failed invocation: the Bedrock SDK error
\* carries $metadata.httpStatusCode, the Error thrown by invokeOllama on
\* !response.ok carries only a message, and reading result.message.content
\* of a body without message throws a TypeError
BackendError(prov, s, p, n) ==
    [class |-> IF s = OkNoMessage THEN "TypeError" ELSE "Error",
     status |-> IF prov = "bedrock" /\ s # OkNoMessage THEN s ELSE NoStatus,
     http |-> s, phase |-> p, attempt |-> n]

\* the triggerUsage calls an invocation makes before it fails: invokeOllama
\* calls triggerUsage before it reads result.message.content
TriggeredBeforeFailure(prov, s) == IF prov = "ollama" /\ s = OkNoMessage THEN 1 ELSE 0

\* handleError(error) followed by `throw error`: what the function given to
\* pRetry throws. abort marks a pRetry.AbortError wrapping the error.
HandleError(error) ==
    LET status == error.status
    IN  IF status = 401 \/ status = 403
        THEN [abort |-> FALSE, error |-> [error EXCEPT !.class = "CarrotAuthError"]]
        ELSE IF status = 429
        THEN [abort |-> FALSE, error |-> [error EXCEPT !.class = "CarrotRateLimitError"]]
        ELSE IF status >= 400 /\ status < 500 /\ status # 429
        THEN [abort |-> TRUE, error |-> error]
        ELSE [abort |-> FALSE, error |-> error]

PRetryStopsOneEarly(thrown, n, r) ==
    ~thrown.abort /\ thrown.error.class # "TypeError" /\ n < r

\* pRetry(fn, {retries}): after attempt n threw, run fn again unless the error
\* is an AbortError or a TypeError that is no network error, or no retries
\* are left (retriesLeft = retries - (n - 1))
PRetryRetries(thrown, n, r) ==
    ~thrown.abort /\ thrown.error.class # "TypeError" /\ r - (n - 1) > 0

ResponseOfRequestedModel(modelId) == [kind |-> "response", model |-> PrimaryModel]

\* return { content, role: 'assistant', model: modelId, usage, ... }
ChatResponse(modelId) == [kind |-> "response", model |-> modelId]

SurfacedLastError(error, fallbackError) == fallbackError

\* `throw error` at the end of the catch block of chat()
SurfacedError(error, fallbackError) == error

ChatStart ==
    /\ provider \in Providers
    /\ retries \in {RetriesOf(opt) : opt \in -1..MaxRetries}
    /\ fallbackModels \in UNION {[1..n -> FallbackPool] : n \in 0..MaxFallbacks}
    /\ cpc = "attempt"
    /\ phase = 0
    /\ attemptNumber = 1
    /\ invoked = <<>>
    /\ primaryError = NoError
    /\ chatResult = [kind |-> "none"]
    /\ usageCount = 0
    /\ usage = NoUsage
    /\ settled = 0
    /\ firstStatus = -1
    /\ allTransient = TRUE

ChatInvokeEager ==
    /\ cpc \in {"attempt", "inflight"}
    /\ Len(invoked) - settled < 2
    /\ cpc' = "inflight"
    /\ invoked' = Append(invoked, [model |-> Candidate(phase), phase |-> phase])
    /\ sent' = Append(sent, request)
    /\ UNCHANGED <<provider, retries, fallbackModels, phase, attemptNumber, primaryError,
                   chatResult, usageCount, usage, settled, firstStatus, allTransient,
                   histVars, agentVars, streamVars, request, shared, snapshot>>

\* the function given to pRetry calls invokeBedrock / invokeOllama, which
\* reads options.messages (mapToBedrockMessages(options.messages),
\* [...options.messages]) as it builds the request
ChatInvoke ==
    /\ cpc = "attempt"
    /\ cpc' = "inflight"
    /\ invoked' = Append(invoked, [model |-> Candidate(phase), phase |-> phase])
    /\ sent' = Append(sent, request)
    /\ UNCHANGED <<provider, retries, fallbackModels, phase, attemptNumber, primaryError,
                   chatResult, usageCount, usage, settled, firstStatus, allTransient,
                   histVars, agentVars, streamVars, request, shared, snapshot>>

\* the invocation succeeds: triggerUsage, and chat() returns the response
ChatInvokeOk ==
    /\ cpc = "inflight"
    /\ cpc' = "returned"
    /\ usageCount' = usageCount + 1
    /\ usage' \in UsagesOf(provider)
    /\ settled' = settled + 1
    /\ chatResult' = ChatResponse(Candidate(phase))
    /\ firstStatus' = IF Len(invoked) = 1 THEN 200 ELSE firstStatus
    /\ allTransient' = FALSE
    /\ UNCHANGED <<snapVars, provider, retries, fallbackModels, phase, attemptNumber, invoked,
                   primaryError, histVars, agentVars, streamVars>>

Thrown(s) == HandleError(BackendError(provider, s, phase, attemptNumber))

\* the history variables after an invocation failed with outcome s, and the
\* triggerUsage call it made before failing, if any (its Usage is a local
\* of the adapter and is gone with the throw)
NoteFailure(s) ==
    /\ firstStatus' = IF Len(invoked) = 1 THEN s ELSE firstStatus
    /\ allTransient' = (allTransient /\ IsTransientStatus(s))
    /\ settled' = settled + 1
    /\ usageCount' = usageCount + TriggeredBeforeFailure(provider, s)
    /\ usage' = usage

\* the invocation fails and p-retry schedules another attempt
ChatAttemptFails ==
    /\ cpc = "inflight"
    /\ \E s \in FailureOutcomes(provider) :
          /\ PRetryRetries(Thrown(s), attemptNumber, retries)
          /\ NoteFailure(s)
    /\ cpc' = "backoff"
    /\ attemptNumber' = attemptNumber + 1
    /\ UNCHANGED <<snapVars, provider, retries, fallbackModels, phase, invoked, primaryError,
                   chatResult, histVars, agentVars, streamVars>>

\* the retry delay elapses
ChatBackoffElapsed ==
    /\ cpc = "backoff"
    /\ cpc' = "attempt"
    /\ UNCHANGED <<snapVars, provider, retries, fallbackModels, phase, attemptNumber, invoked,
                   primaryError, chatResult, usageCount, usage, settled, firstStatus,
                   allTransient, histVars, agentVars, streamVars>>

\* runWithRetry(model) rejects: catch (error), then the first fallback, or
\* `throw error` when fallbackModels is empty
ChatPrimaryFails ==
    /\ cpc = "inflight"
    /\ phase = 0
    /\ \E s \in FailureOutcomes(provider) :
          /\ ~PRetryRetries(Thrown(s), attemptNumber, retries)
          /\ NoteFailure(s)
          /\ primaryError' = Thrown(s).error
          /\ IF Len(fallbackModels) > 0
             THEN /\ cpc' = "attempt"
                  /\ phase' = 1
                  /\ attemptNumber' = 1
                  /\ UNCHANGED chatResult
             ELSE /\ cpc' = "raised"
                  /\ chatResult' = [kind |-> "error", error |-> Thrown(s).error]
                  /\ UNCHANGED <<phase, attemptNumber>>
    /\ UNCHANGED <<snapVars, provider, retries, fallbackModels, invoked, histVars, agentVars,
                   streamVars>>

\* runWithRetry(fallbackModel) rejects: catch (fallbackError), then the next
\* fallback, or `throw error` after the last one
ChatFallbackFails ==
    /\ cpc = "inflight"
    /\ phase >= 1
    /\ \E s \in FailureOutcomes(provider) :
          /\ ~PRetryRetries(Thrown(s), attemptNumber, retries)
          /\ NoteFailure(s)
          /\ IF phase < Len(fallbackModels)
             THEN /\ cpc' = "attempt"
                  /\ phase' = phase + 1
                  /\ attemptNumber' = 1
                  /\ UNCHANGED chatResult
             ELSE /\ cpc' = "raised"
                  /\ chatResult' = [kind |-> "error",
                                    error |-> SurfacedError(primaryError, Thrown(s).error)]
                  /\ UNCHANGED <<phase, attemptNumber>>
    /\ UNCHANGED <<snapVars, provider, retries, fallbackModels, invoked, primaryError, histVars,
                   agentVars, streamVars>>

ChatNext ==
    \/ ChatInvoke
    \/ ChatInvokeOk
    \/ ChatAttemptFails
    \/ ChatBackoffElapsed
    \/ ChatPrimaryFails
    \/ ChatFallbackFails

(***************************************************************************)
(* CarrotAgent.run                                                         *)
(***************************************************************************)
\* this.tools: the names of the registered ToolDefinitions
Registry == <<"get_weather">>

\* the tool calls a model response may carry: a registered tool with
\* parameters that pass or fail tool.parameters.parse, or an unregistered name
ToolCallShapes ==
    {[name |-> "get_weather", valid |-> TRUE],
     [name |-> "get_weather", valid |-> FALSE],
     [name |-> "web_search", valid |-> TRUE]}

\* the toolCalls of the k-th response: ids are unique within the turn
ToolCallsOf(k, shapes) ==
    [i \in 1..Len(shapes) |-> [id |-> <<k, i>>, name |-> shapes[i].name, valid |-> shapes[i].valid]]

Sentinel == "Max iterations reached."

NoResponse == [content |-> 0, toolCalls |-> NoToolCalls]

AgentIdle ==
    /\ apc = "idle"
    /\ iterations = 0
    /\ chatCalls = 0
    /\ toolTurns = 0
    /\ response = NoResponse
    /\ toolState = <<>>
    /\ executed = {}
    /\ lastAdded = NoResponse
    /\ runResult = [kind |-> "none"]

\* this.tools.find(t => t.name === tc.name): 0 when there is none
FindTool(name) ==
    IF \E j \in 1..Len(Registry) : Registry[j] = name
    THEN CHOOSE j \in 1..Len(Registry) :
            /\ Registry[j] = name
            /\ \A h \in 1..(j - 1) : Registry[h] # name
    ELSE 0

NotFoundResult(tc) == [toolCallId |-> tc.id, content |-> "not found", isError |-> TRUE]

ValidationResult(tc) == [toolCallId |-> tc.id, content |-> "validation error", isError |-> TRUE]

ThrownResultUnflagged(tc) == [toolCallId |-> tc.id, content |-> "error message", isError |-> FALSE]

\* catch (error) of a failed execute: isError: true
ThrownResult(tc) == [toolCallId |-> tc.id, content |-> "error message", isError |-> TRUE]

\* execute resolved: { toolCallId, content: JSON.stringify(result) }, isError unset
ValueResult(tc) == [toolCallId |-> tc.id, content |-> "value", isError |-> FALSE]

StartCallUnvalidated(tc) ==
    IF FindTool(tc.name) = 0
    THEN [st |-> "resolved", call |-> tc, threw |-> FALSE, settledAt |-> 0,
          result |-> [toolCallId |-> tc.id, content |-> "not found", isError |-> TRUE]]
    ELSE [st |-> "running", call |-> tc, threw |-> FALSE, settledAt |-> 0,
          result |-> [toolCallId |-> tc.id]]

\* the callback of toolCalls.map up to its first await: a promise already
\* resolved with an error result, or one waiting for tool.execute.
\* settledAt is a history field: 0 for a callback that returned without
\* waiting, else the rank of the execute among those that have settled
StartCall(tc) ==
    IF FindTool(tc.name) = 0
    THEN [st |-> "resolved", call |-> tc, threw |-> FALSE, settledAt |-> 0,
          result |-> NotFoundResult(tc)]
    ELSE IF ~tc.valid
    THEN [st |-> "resolved", call |-> tc, threw |-> FALSE, settledAt |-> 0,
          result |-> ValidationResult(tc)]
    ELSE [st |-> "running", call |-> tc, threw |-> FALSE, settledAt |-> 0,
          result |-> [toolCallId |-> tc.id]]

StartCallsOneByOne(tcs) ==
    [i \in 1..Len(tcs) |->
        IF /\ StartCall(tcs[i]).st = "running"
           /\ \E j \in 1..(i - 1) : StartCall(tcs[j]).st = "running"
        THEN [StartCall(tcs[i]) EXCEPT !.st = "waiting"]
        ELSE StartCall(tcs[i])]

\* response.toolCalls.map(async (tc) => ...): map runs every callback up to
\* its first await before Promise.all is given the array, so every execute
\* has been invoked before any of them is waited for
StartCalls(tcs) == [i \in 1..Len(tcs) |-> StartCall(tcs[i])]

LoopContinuesOnceMore(n) == n <= MaxIterations

\* while (iterations < maxIterations)
LoopContinues(n) == n < MaxIterations

\* the caller's ConversationHistory: empty, or seeded with a system message
AgentStart ==
    /\ maxMessages \in 1..MaxAgentCap
    /\ messages \in {<<>>, <<Msg("system", TextContent(0), NoToolCalls)>>}
    /\ appended = <<>>
    /\ seqNo = 0
    /\ AgentIdle

\* run(prompt) up to its first await: the prompt is appended and, as
\* 0 < maxIterations, chat() is called
AgentRun ==
    /\ apc = "idle"
    /\ LET m == Msg("user", TextContent("prompt"), NoToolCalls)
       IN  /\ messages' = AddMessage(messages, maxMessages, m)
           /\ lastAdded' = m
    /\ iterations' = 0
    /\ IF LoopContinues(0)
       THEN apc' = "chat" /\ chatCalls' = chatCalls + 1 /\ UNCHANGED runResult
       ELSE apc' = "done" /\ runResult' = [kind |-> "value", value |-> Sentinel]
                          /\ UNCHANGED chatCalls
    /\ UNCHANGED <<snapVars, maxMessages, appended, seqNo, toolTurns, response, toolState, executed,
                   chatVars, streamVars>>

\* chat() rejects: the error leaves run()
AgentChatRejects ==
    /\ apc = "chat"
    /\ apc' = "raised"
    /\ runResult' = [kind |-> "error", from |-> "chat"]
    /\ UNCHANGED <<snapVars, histVars, iterations, chatCalls, toolTurns, response, toolState, executed,
                   lastAdded, chatVars, streamVars>>

\* chat() resolves with a response without tool calls: it is appended and its
\* content returned
AgentFinalAnswer ==
    /\ apc = "chat"
    /\ LET r == [content |-> chatCalls, toolCalls |-> NoToolCalls]
           m == Msg("assistant", TextContent(r.content), r.toolCalls)
       IN  /\ response' = r
           /\ messages' = AddMessage(messages, maxMessages, m)
           /\ lastAdded' = m
           /\ runResult' = [kind |-> "value", value |-> r.content]
    /\ apc' = "done"
    /\ UNCHANGED <<snapVars, maxMessages, appended, seqNo, iterations, chatCalls, toolTurns,
                   toolState, executed,
                   chatVars, streamVars>>

\* chat() resolves with tool calls: the assistant message is appended, then
\* toolCalls.map starts every call and Promise.all waits
AgentToolTurn ==
    /\ apc = "chat"
    /\ \E n \in 1..MaxCalls : \E shapes \in [1..n -> ToolCallShapes] :
          LET r == [content |-> chatCalls, toolCalls |-> ToolCallsOf(chatCalls, shapes)]
              m == Msg("assistant", TextContent(r.content), r.toolCalls)
              started == StartCalls(r.toolCalls)
          IN  /\ response' = r
              /\ messages' = AddMessage(messages, maxMessages, m)
              /\ lastAdded' = m
              /\ toolState' = started
              /\ executed' = {started[i].call.id : i \in {j \in 1..n : started[j].st = "running"}}
    /\ toolTurns' = toolTurns + 1
    /\ apc' = "tools"
    /\ UNCHANGED <<snapVars, maxMessages, appended, seqNo, iterations, chatCalls, runResult,
                   chatVars, streamVars>>

\* the number of tool.execute promises of this turn that have settled
SettledCount == Cardinality({j \in 1..Len(toolState) : toolState[j].settledAt > 0})

\* one tool.execute settles, in any order: it resolves or it rejects
ToolSettles ==
    /\ apc = "tools"
    /\ \E i \in 1..Len(toolState) : \E ok \in BOOLEAN :
          /\ toolState[i].st = "running"
          /\ toolState' = [toolState EXCEPT ![i] =
                 [st |-> "resolved", call |-> @.call, threw |-> ~ok,
                  settledAt |-> SettledCount + 1,
                  result |-> IF ok THEN ValueResult(@.call) ELSE ThrownResult(@.call)]]
    /\ UNCHANGED <<snapVars, histVars, apc, iterations, chatCalls, toolTurns, response, executed,
                   lastAdded, runResult, chatVars, streamVars>>

AnyResolved == \E i \in 1..Len(toolState) : toolState[i].st = "resolved"

\* await Promise.all(...): every promise of the turn has resolved
AllResolved == \A i \in 1..Len(toolState) : toolState[i].st = "resolved"

\* the promises of the turn in the order in which they settled
CompletionOrder ==
    LET n == Len(toolState)
        Before(i, j) ==
            \/ toolState[i].settledAt < toolState[j].settledAt
            \/ toolState[i].settledAt = toolState[j].settledAt /\ i < j
    IN  CHOOSE p \in [1..n -> 1..n] :
            \A a \in 1..n : \A b \in 1..n : a < b => Before(p[a], p[b])

ToolResultsInCompletionOrder ==
    [k \in 1..Len(toolState) |-> toolState[CompletionOrder[k]].result]

\* const toolResults = await Promise.all(...): the values of the promises in
\* the order of the array given to Promise.all
ToolResults == [i \in 1..Len(toolState) |-> toolState[i].result]

\* Promise.all resolves: the results are appended as one user message,
\* iterations++, and the loop calls chat() again
AgentNextTurn ==
    /\ apc = "tools"
    /\ AllResolved
    /\ LoopContinues(iterations + 1)
    /\ LET m == Msg("user", ResultsContent(ToolResults), NoToolCalls)
       IN  /\ messages' = AddMessage(messages, maxMessages, m)
           /\ lastAdded' = m
    /\ iterations' = iterations + 1
    /\ apc' = "chat"
    /\ chatCalls' = chatCalls + 1
    /\ toolState' = <<>>
    /\ UNCHANGED <<snapVars, maxMessages, appended, seqNo, toolTurns, response, executed,
                   runResult, chatVars, streamVars>>

\* Promise.all resolves, iterations++ reaches maxIterations: the loop ends
\* and run() returns the sentinel
AgentMaxIterations ==
    /\ apc = "tools"
    /\ AllResolved
    /\ ~LoopContinues(iterations + 1)
    /\ LET m == Msg("user", ResultsContent(ToolResults), NoToolCalls)
       IN  /\ messages' = AddMessage(messages, maxMessages, m)
           /\ lastAdded' = m
    /\ iterations' = iterations + 1
    /\ apc' = "done"
    /\ runResult' = [kind |-> "value", value |-> Sentinel]
    /\ toolState' = <<>>
    /\ UNCHANGED <<snapVars, maxMessages, appended, seqNo, chatCalls, toolTurns, response,
                   executed, chatVars, streamVars>>

AgentNext ==
    \/ AgentRun
    \/ AgentChatRejects
    \/ AgentFinalAnswer
    \/ AgentToolTurn
    \/ ToolSettles
    \/ AgentNextTurn
    \/ AgentMaxIterations

(***************************************************************************)
(* CarrotAI.chatStream                                                     *)
(***************************************************************************)
\* ConverseStream chunks: a contentBlockDelta with text, one with empty text,
\* a contentBlockStart with toolUse (id and name of a tool call), a
\* contentBlockDelta with a fragment of the tool call's input, the
\* contentBlockStop that ends the block, a metadata chunk with usage, messageStop
BedrockChunks == {"text", "empty", "toolUse", "toolInput", "blockStop", "usage", "stop"}

\* lines of the Ollama stream: message.content non-empty, message.content
\* empty, and the final line with done: true
OllamaLines == {"content", "empty", "done"}

ContentEvent(i) == [type |-> "content", content |-> i]

UsageEvent == [type |-> "usage"]

DoneEvent == [type |-> "done"]

StreamIdle ==
    /\ spc = "idle"
    /\ script = <<>>
    /\ cursor = 0
    /\ events = <<>>
    /\ failure = "none"
    /\ aligned = TRUE

BedrockChunkEventsUnguarded(i, chunk) ==
    IF chunk \in {"text", "empty"} THEN <<ContentEvent(i)>>
    ELSE IF chunk = "usage" THEN <<UsageEvent>>
    ELSE <<>>

\* the body of `for await (const chunk of response.stream)` for the i-th chunk
BedrockChunkEvents(i, chunk) ==
    IF chunk = "text" THEN <<ContentEvent(i)>>
    ELSE IF chunk = "usage" THEN <<UsageEvent>>
    ELSE <<>>

\* the bytes of the Ollama response: every line is its JSON text, here in two
\* halves, followed by a newline
Newline == [line |-> 0, part |-> 0]

Wire(lines) ==
    [k \in 1..(3 * Len(lines)) |->
        IF k % 3 = 0 THEN Newline ELSE [line |-> (k + 2) \div 3, part |-> k % 3]]

\* chunk.split('\n'): the pieces between newlines, empty ones included
RECURSIVE SplitLines(_)
SplitLines(value) ==
    IF \E k \in 1..Len(value) : value[k] = Newline
    THEN LET k == CHOOSE j \in 1..Len(value) :
                     value[j] = Newline /\ \A h \in 1..(j - 1) : value[h] # Newline
         IN  <<SubSeq(value, 1, k - 1)>> \o SplitLines(SubSeq(value, k + 1, Len(value)))
    ELSE <<value>>

\* .filter(l => l.trim())
NonBlank(piece) == piece # <<>>

\* JSON.parse(line): the number of the line when the piece is its whole JSON
\* text, 0 (a SyntaxError) otherwise
ParseLine(piece) ==
    IF Len(piece) = 2 /\ piece[1].part = 1 /\ piece[2].part = 2 /\ piece[1].line = piece[2].line
    THEN piece[1].line
    ELSE 0

\* the body of `for (const line of lines)` for the parsed line i
OllamaLineEvents(i, line) ==
    IF line = "content" THEN <<ContentEvent(i)>>
    ELSE IF line = "done" THEN <<UsageEvent>>
    ELSE <<>>

\* the for loop over the lines of one read: the events yielded, and whether
\* JSON.parse threw
RECURSIVE ProcessLines(_, _)
ProcessLines(pieces, lines) ==
    IF pieces = <<>> THEN [events |-> <<>>, threw |-> FALSE]
    ELSE LET i == ParseLine(Head(pieces))
         IN  IF i = 0 THEN [events |-> <<>>, threw |-> TRUE]
             ELSE LET rest == ProcessLines(Tail(pieces), lines)
                  IN  [events |-> OllamaLineEvents(i, lines[i]) \o rest.events,
                       threw |-> rest.threw]

UsageEvents(evs) == Cardinality({k \in 1..Len(evs) : evs[k].type = "usage"})

EventsOnErrorWithDone(evs) == Append(evs, DoneEvent)

\* an error thrown inside the generator leaves it: nothing is yielded for it
EventsOnError(evs) == evs

StreamThrownClassified(prov, s) == HandleError(BackendError(prov, s, 0, 1)).error

\* the error that leaves the generator: what the adapter threw, as chatStream
\* has no try / catch and does not call handleError
StreamThrown(prov, s) == BackendError(prov, s, 0, 1)

\* JSON.parse(line) of a line that is not JSON
DecodeError == [class |-> "SyntaxError", status |-> NoStatus, http |-> NoStatus,
                phase |-> 0, attempt |-> 1]

\* chatStream(options) has returned its generator; nothing of the body has run
StreamStart ==
    /\ provider \in Providers
    /\ script \in UNION {[1..n -> IF provider = "bedrock" THEN BedrockChunks ELSE OllamaLines] :
                            n \in 0..MaxChunks}
    /\ spc = "called"
    /\ cursor = 0
    /\ events = <<>>
    /\ failure = "none"
    /\ aligned = TRUE

\* the first next(): the generator runs to its first await, the
\* bedrockClient.send(command) or the fetch of invoke...Stream for the model
\* resolved by chatStream; options.retries and options.fallbackModels are
\* not read
StreamInvoke ==
    /\ spc = "called"
    /\ spc' = "open"
    /\ invoked' = Append(invoked, [model |-> PrimaryModel, phase |-> 0])
    /\ UNCHANGED <<snapVars, script, cursor, events, failure, aligned, histVars, agentVars,
                   provider, retries, fallbackModels, cpc, phase, attemptNumber,
                   primaryError, chatResult, usageCount, usage, settled, firstStatus,
                   allTransient>>

\* bedrockClient.send / fetch resolves with a stream
StreamOpens ==
    /\ spc = "open"
    /\ spc' = "streaming"
    /\ UNCHANGED <<snapVars, script, cursor, events, failure, aligned, histVars, chatVars, agentVars>>

\* send / fetch rejects, !response.ok, or there is no stream: the error is thrown
StreamOpenFails ==
    /\ spc = "open"
    /\ spc' = "error"
    /\ failure' = "open"
    /\ events' = EventsOnError(events)
    /\ \E s \in FailureStatus :
          chatResult' = [kind |-> "error", error |-> StreamThrown(provider, s)]
    /\ UNCHANGED <<snapVars, script, cursor, aligned, histVars, agentVars,
                   provider, retries, fallbackModels, cpc, phase, attemptNumber, invoked,
                   primaryError, usageCount, usage, settled, firstStatus, allTransient>>

\* one chunk of response.stream
BedrockChunk ==
    /\ spc = "streaming"
    /\ provider = "bedrock"
    /\ cursor < Len(script)
    /\ LET evs == BedrockChunkEvents(cursor + 1, script[cursor + 1])
       IN  /\ events' = events \o evs
           /\ usageCount' = usageCount + UsageEvents(evs)
           /\ IF UsageEvents(evs) > 0
              THEN usage' \in UsagesOf(provider)
              ELSE usage' = usage
    /\ cursor' = cursor + 1
    /\ UNCHANGED <<snapVars, spc, script, failure, aligned, histVars, agentVars, provider, retries,
                   fallbackModels, cpc, phase, attemptNumber, invoked, primaryError,
                   chatResult, settled, firstStatus, allTransient>>

\* one reader.read() of any number of bytes, decoded, split and parsed
OllamaRead ==
    /\ spc = "streaming"
    /\ provider = "ollama"
    /\ cursor < Len(Wire(script))
    /\ \E n \in 1..(Len(Wire(script)) - cursor) :
          LET value == SubSeq(Wire(script), cursor + 1, cursor + n)
              lines == SelectSeq(SplitLines(value), NonBlank)
              out == ProcessLines(lines, script)
          IN  /\ cursor' = cursor + n
              /\ aligned' = (aligned /\ Wire(script)[cursor + n] = Newline)
              /\ usageCount' = usageCount + UsageEvents(out.events)
              /\ IF UsageEvents(out.events) > 0
                 THEN usage' \in UsagesOf(provider)
                 ELSE usage' = usage
              /\ IF out.threw
                 THEN /\ events' = EventsOnError(events \o out.events)
                      /\ spc' = "error"
                      /\ failure' = "decode"
                      /\ chatResult' = [kind |-> "error", error |-> DecodeError]
                 ELSE /\ events' = events \o out.events
                      /\ UNCHANGED <<spc, failure, chatResult>>
    /\ UNCHANGED <<snapVars, script, histVars, agentVars, provider, retries, fallbackModels,
                   cpc, phase, attemptNumber, invoked, primaryError, settled,
                   firstStatus, allTransient>>

\* the stream iterator or reader.read() throws
StreamBackendError ==
    /\ spc = "streaming"
    /\ spc' = "error"
    /\ failure' = "backend"
    /\ events' = EventsOnError(events)
    /\ chatResult' = [kind |-> "error", error |-> StreamThrown(provider, NoStatus)]
    /\ UNCHANGED <<snapVars, script, cursor, aligned, histVars, agentVars,
                   provider, retries, fallbackModels, cpc, phase, attemptNumber, invoked,
                   primaryError, usageCount, usage, settled, firstStatus, allTransient>>

\* the stream is exhausted: yield { type: 'done' }
StreamEnds ==
    /\ spc = "streaming"
    /\ cursor = (IF provider = "bedrock" THEN Len(script) ELSE Len(Wire(script)))
    /\ events' = Append(events, DoneEvent)
    /\ spc' = "done"
    /\ UNCHANGED <<snapVars, script, cursor, failure, aligned, histVars, chatVars, agentVars>>

StreamNext ==
    \/ StreamInvoke
    \/ StreamOpens
    \/ StreamOpenFails
    \/ BedrockChunk
    \/ OllamaRead
    \/ StreamBackendError
    \/ StreamEnds

(***************************************************************************)
(* Specifications                                                          *)
(***************************************************************************)
(***************************************************************************)
(* chat() on the array of a ConversationHistory                            *)
(***************************************************************************)
\* this.memory.addMessage(prompt), then this.ai.chat({ messages:
\* this.memory.getMessages(), ... }): the history holds the prompt, after a
\* system message or not, and options.messages is the array getMessages()
\* returned, which is this.messages itself
ChatOnHistory ==
    /\ maxMessages \in 1..MaxCap
    /\ \E seed \in {<<>>, <<Msg("system", TextContent(0), NoToolCalls)>>} :
          messages = AddMessage(seed, maxMessages, Msg("user", TextContent(0), NoToolCalls))
    /\ appended = <<>>
    /\ seqNo = 0
    /\ request = messages
    /\ shared = TRUE
    /\ snapshot = messages
    /\ sent = <<>>
    /\ ChatStart
    /\ retries = 1
    /\ Len(fallbackModels) = 1

\* while chat() awaits a backend or p-retry's timer, code that holds the same
\* ConversationHistory calls addMessage: the caller, or another run() on the
\* agent, whose first statement appends its prompt
AppendDuringChat ==
    /\ cpc \in {"inflight", "backoff"}
    /\ seqNo < MaxOverlap
    /\ LET m == Msg("user", TextContent(seqNo + 1), NoToolCalls)
       IN  /\ messages' = AddMessage(messages, maxMessages, m)
           /\ appended' = Append(appended, m)
           /\ request' = RequestAfterPush(m)
           /\ shared' = SharedAfterPrune(Append(messages, m), maxMessages)
    /\ seqNo' = seqNo + 1
    /\ UNCHANGED <<maxMessages, chatVars, agentVars, streamVars, snapshot, sent>>

SnapshotNext == ChatNext \/ AppendDuringChat

HistoryIdle ==
    /\ messages = <<>>
    /\ maxMessages = DefaultMaxMessages
    /\ appended = <<>>
    /\ seqNo = 0

HistoryInit == HistoryStart /\ ChatIdle /\ AgentIdle /\ StreamIdle /\ NoRequest

SpecHistory == HistoryInit /\ [][HistoryNext]_vars

ChatInit == ChatStart /\ HistoryIdle /\ AgentIdle /\ StreamIdle /\ NoRequest

SpecChat == ChatInit /\ [][ChatNext]_vars

AgentInit == AgentStart /\ ChatIdle /\ StreamIdle /\ NoRequest

SpecAgent == AgentInit /\ [][AgentNext]_vars

StreamInit == StreamStart /\ ChatNotCalled /\ HistoryIdle /\ AgentIdle /\ NoRequest

SpecStream == StreamInit /\ [][StreamNext]_vars

\* chatStream(options) with any retries and fallbackModels among the options,
\* on a stream of at most one chunk or line
StreamWithOptions ==
    /\ StreamStart
    /\ Len(script) <= 1
    /\ retries \in {RetriesOf(opt) : opt \in -1..MaxRetries}
    /\ fallbackModels \in UNION {[1..n -> FallbackPool] : n \in 0..MaxFallbacks}
    /\ NoChatCall

StreamOptionsInit == StreamWithOptions /\ HistoryIdle /\ AgentIdle /\ NoRequest

SpecStreamOptions == StreamOptionsInit /\ [][StreamNext]_vars

SnapshotInit == ChatOnHistory /\ AgentIdle /\ StreamIdle

SpecSnapshot == SnapshotInit /\ [][SnapshotNext]_vars

(***************************************************************************)
(* Claims on ConversationHistory                                           *)
(***************************************************************************)
Range(s) == {s[i] : i \in 1..Len(s)}

\* C7: with maxMessages = N >= 1, after every append the buffer holds at most
\* N messages, and every system message appended is still in the buffer as
\* long as the number of system messages appended is at most N.
C7_BoundedAndSystemKept ==
    /\ maxMessages >= 1
    /\ Len(messages) <= maxMessages
    /\ Len(SelectSeq(appended, IsSystem)) <= maxMessages
          => \A i \in 1..Len(appended) :
                IsSystem(appended[i]) => appended[i] \in Range(messages)

\* C7 witness: a pruned buffer at its cap that dropped a non-system message
\* and still holds a system message.
C7_Witness ==
    /\ Len(appended) > maxMessages
    /\ Len(messages) = maxMessages
    /\ \E i \in 1..Len(appended) : IsSystem(appended[i]) /\ appended[i] \in Range(messages)
    /\ \E i \in 1..Len(appended) : IsOther(appended[i]) /\ appended[i] \notin Range(messages)

\* the most recent k elements of s
LastN(s, k) == SubSeq(s, Len(s) - Min(k, Len(s)) + 1, Len(s))

Roles(s) == [i \in 1..Len(s) |-> s[i].role]

\* C8: when an append makes the buffer exceed maxMessages, with
\* keep = maxMessages - systemCount: if keep > 0 the buffer becomes all system
\* messages in their order followed by the most recent keep non-system
\* messages in their order; if keep <= 0 it becomes exactly the most recent
\* maxMessages system messages. With maxMessages = 3, appending system, user,
\* assistant, user leaves [system, assistant, user].
C8_PruneShape ==
    /\ [][ (Len(appended') = Len(appended) + 1 /\ Len(messages) + 1 > maxMessages) =>
           LET full == Append(messages, appended'[Len(appended')])
               sys == SelectSeq(full, IsSystem)
               oth == SelectSeq(full, IsOther)
               keep == maxMessages - Len(sys)
           IN  IF keep > 0
               THEN messages' = sys \o LastN(oth, keep)
               ELSE /\ messages' = LastN(sys, maxMessages)
                    /\ \A i \in 1..Len(messages') : IsSystem(messages'[i]) ]_vars
    /\ [](  (maxMessages = 3 /\ Roles(appended) = <<"system", "user", "assistant", "user">>)
               => messages = <<appended[1], appended[3], appended[4]>> )

\* C8 witness: the scenario of the claim, after its fourth append has pruned.
C8_Witness ==
    /\ maxMessages = 3
    /\ Roles(appended) = <<"system", "user", "assistant", "user">>
    /\ Roles(messages) = <<"system", "assistant", "user">>

\* C8 witness of the other branch is reachable too: system messages alone
\* exceed the cap and the oldest system message is dropped.
C8_SystemOverflowReached ==
    /\ Len(SelectSeq(appended, IsSystem)) > maxMessages
    /\ Len(messages) = maxMessages

\* the place of message m in the log of appended messages
AppendedAt(m) == CHOOSE i \in 1..Len(appended) : appended[i] = m

\* C17: the buffer preserves order: after any appends, with messages of any
\* roles, and any pruning, two messages that are both in the buffer appear
\* in the order in which they were appended.
C17_OrderPreserved ==
    \A i \in 1..Len(messages) : \A j \in 1..Len(messages) :
        i < j => AppendedAt(messages[i]) < AppendedAt(messages[j])

\* C17, what the code does instead: with maxMessages = 3, after user, user,
\* system, user the system message stands before the second user message.
C17_SystemMovedReached ==
    /\ maxMessages = 3
    /\ Roles(appended) = <<"user", "user", "system", "user">>
    /\ messages = <<appended[3], appended[2], appended[4]>>

(***************************************************************************)
(* Claims on CarrotAI.chat                                                 *)
(***************************************************************************)
\* every candidate model, in order, retries + 1 times each
ExpectedLog ==
    [i \in 1..((retries + 1) * (1 + Len(fallbackModels))) |->
        LET p == (i - 1) \div (retries + 1)
        IN  [model |-> Candidate(p), phase |-> p]]

PrimaryInvocations == Cardinality({i \in 1..Len(invoked) : invoked[i].phase = 0})

\* C1: while every backend invocation fails with a transient failure (no HTTP
\* status, or 5xx), the primary model is invoked exactly retries + 1 times
\* before it is given up, then every fallback model exactly retries + 1 times,
\* in list order; the call ends after (retries + 1) * (1 + #fallbacks) invocations.
C1_TransientBudget ==
    allTransient =>
        /\ Len(invoked) <= Len(ExpectedLog)
        /\ \A i \in 1..Len(invoked) : invoked[i] = ExpectedLog[i]
        /\ Len(invoked) >= phase * (retries + 1)
        /\ cpc # "returned"
        /\ cpc = "raised" => invoked = ExpectedLog

\* C1 witness: the default budget of 3 retries and two fallback models, all
\* twelve invocations failed transiently.
C1_Witness ==
    /\ allTransient
    /\ cpc = "raised"
    /\ retries = DefaultRetries
    /\ Len(fallbackModels) = 2
    /\ Len(invoked) = 12

\* C2: when the first invocation fails with 401 or 403 and there are no
\* fallback models, exactly one invocation is made and chat() raises a
\* CarrotAuthError at once.
C2_AuthFailsFast ==
    (firstStatus \in {401, 403} /\ fallbackModels = <<>>) =>
        /\ Len(invoked) = 1
        /\ cpc = "raised"
        /\ chatResult.kind = "error"
        /\ chatResult.error.class = "CarrotAuthError"

\* C2, what the code does instead: a first 403 on Bedrock with retries left is
\* followed by a second invocation of the same model.
C2_AuthRetriedReached ==
    /\ provider = "bedrock"
    /\ firstStatus = 403
    /\ fallbackModels = <<>>
    /\ Len(invoked) = 2

\* C3: when the primary model has failed and fallbackModels is non-empty, the
\* fallback models are invoked in list order, each only after the one before
\* it; a returned response carries the identifier of the fallback that
\* produced it, and no later fallback is invoked.
C3_FallbackOrder ==
    /\ \A i \in 1..Len(invoked) :
          /\ invoked[i].model = Candidate(invoked[i].phase)
          /\ invoked[i].phase = (IF i = 1 THEN 0 ELSE invoked[i - 1].phase)
             \/ (i > 1 /\ invoked[i].phase = invoked[i - 1].phase + 1)
          /\ invoked[i].phase <= phase
    /\ (cpc = "returned" /\ phase >= 1) =>
          /\ chatResult.kind = "response"
          /\ chatResult.model = fallbackModels[phase]
          /\ invoked[Len(invoked)].phase = phase
          /\ primaryError # NoError
    /\ (cpc = "raised" /\ Len(fallbackModels) > 0) =>
          \A p \in 0..Len(fallbackModels) : \E i \in 1..Len(invoked) : invoked[i].phase = p

\* C3 witness: the second of two different fallback models answered.
C3_Witness ==
    /\ cpc = "returned"
    /\ phase = 2
    /\ fallbackModels = <<"f1", "f2">>
    /\ chatResult.model = "f2"

\* C4: when the primary model and every fallback model fail, chat() raises the
\* error of the primary model's final attempt, never a fallback's error.
C4_PrimaryErrorSurfaced ==
    cpc = "raised" =>
        /\ chatResult.kind = "error"
        /\ chatResult.error = primaryError
        /\ chatResult.error.phase = 0
        /\ chatResult.error.attempt = PrimaryInvocations

\* C4 witness: primary and fallback failed in different ways, after retries.
C4_Witness ==
    /\ cpc = "raised"
    /\ Len(fallbackModels) = 2
    /\ chatResult.error.http = 500
    /\ chatResult.error.attempt = 3
    /\ Len(invoked) > PrimaryInvocations
    /\ ~allTransient

\* C12: for any chat() call, whatever its failed attempts, retries and
\* fallbacks, the usage callbacks are invoked exactly once if the call
\* returns a response and never for a failed attempt: zero times if it raises.
C12_UsageOncePerCompletedCall ==
    /\ cpc = "returned" => usageCount = 1
    /\ cpc # "returned" => usageCount = 0

\* C12, what the code does instead: on Ollama a 200 answer without message
\* made the primary model and then a fallback report usage, and chat() raised.
C12_UsageOnFailureReached ==
    /\ provider = "ollama"
    /\ cpc = "raised"
    /\ Len(invoked) = 2
    /\ usageCount = 2

\* C13: when an invocation of a model fails with a 4xx status other than 401,
\* 403 and 429, that model is invoked exactly once; chat() then goes straight
\* to the first fallback model if there is one, and raises the failure
\* otherwise.
C13_ClientErrorNotRetried ==
    firstStatus = 404 =>
        /\ PrimaryInvocations = 1
        /\ IF Len(fallbackModels) > 0
           THEN phase >= 1
           ELSE /\ cpc = "raised"
                /\ chatResult.kind = "error"
                /\ chatResult.error.http = 404

\* C13, what the code does instead: on Ollama a first 404 was followed by a
\* second invocation of the same model.
C13_ClientErrorRetriedReached ==
    /\ provider = "ollama"
    /\ firstStatus = 404
    /\ PrimaryInvocations = 2

\* C14: when the primary model's attempt fails with 401 or 403 and
\* fallbackModels is non-empty, the authentication error is raised at once:
\* no fallback model is ever invoked for that chat() call.
C14_AuthSkipsFallbacks ==
    (firstStatus \in {401, 403} /\ Len(fallbackModels) > 0) =>
        \A i \in 1..Len(invoked) : invoked[i].phase = 0

\* C14, what the code does instead: after a 401 of the primary model a
\* fallback model was invoked and its response returned.
C14_FallbackAfterAuthReached ==
    /\ provider = "bedrock"
    /\ firstStatus = 401
    /\ cpc = "returned"
    /\ phase = 1

\* C15: a failure with status 429 is transient: the same model is invoked
\* again until it succeeds or its retries + 1 attempts are used up, and when
\* they are used up and there is no fallback the error raised is a
\* CarrotRateLimitError.
C15_RateLimitRetried ==
    /\ (firstStatus = 429 /\ retries >= 1 /\ PrimaryInvocations = 1) =>
          (phase = 0 /\ cpc \in {"backoff", "attempt"})
    /\ (cpc = "raised" /\ fallbackModels = <<>> /\ chatResult.error.http = 429) =>
          /\ Len(invoked) = retries + 1
          /\ chatResult.error.class = "CarrotRateLimitError"

\* C15, what the code does instead: on Ollama the budget was used up by 429
\* answers and a plain Error was raised.
C15_PlainErrorReached ==
    /\ provider = "ollama"
    /\ cpc = "raised"
    /\ fallbackModels = <<>>
    /\ firstStatus = 429
    /\ chatResult.error.http = 429
    /\ chatResult.error.class = "Error"

\* C19: every Usage value produced by chat() or by a usage event of
\* chatStream, on either backend and for any token counts the backend
\* reports, missing or inconsistent totals included, has
\* totalTokens = inputTokens + outputTokens.
C19_TotalIsSum ==
    usage # NoUsage => usage.totalTokens = usage.inputTokens + usage.outputTokens

\* C19, what the code does instead: a Bedrock response that reports one input
\* and one output token and no total gives a Usage with totalTokens = 0.
C19_TotalNotSumReached ==
    /\ provider = "bedrock"
    /\ cpc = "returned"
    /\ usage = [inputTokens |-> 1, outputTokens |-> 1, totalTokens |-> 0]

\* the invocations started whose outcome chat() has not observed yet
InFlight == Len(invoked) - settled

\* C20: within one chat() call at most one backend invocation is in flight:
\* an attempt starts only after the failure of the previous attempt has been
\* observed, and a fallback model is invoked only after the primary model and
\* every earlier fallback have finished failing.
C20_OneInFlight ==
    /\ [](InFlight \in {0, 1})
    /\ [](cpc \in {"returned", "raised"} => InFlight = 0)
    /\ [][ Len(invoked') > Len(invoked) =>
              /\ Len(invoked') = Len(invoked) + 1
              /\ InFlight = 0
              /\ chatResult.kind = "none"
              /\ LET p == invoked'[Len(invoked')].phase
                 IN  /\ p >= 1 => primaryError # NoError
                     /\ \A q \in 0..(p - 1) : \E i \in 1..Len(invoked) : invoked[i].phase = q
                     /\ \A i \in 1..Len(invoked) : invoked[i].phase <= p ]_vars

\* C20 witness: the second fallback model is being invoked, after three
\* invocations of the models before it have all been seen to fail.
C20_Witness ==
    /\ cpc = "inflight"
    /\ phase = 2
    /\ Len(invoked) = 4
    /\ settled = 3
    /\ InFlight = 1

(***************************************************************************)
(* Claims on CarrotAgent.run                                               *)
(***************************************************************************)
\* C5: when every chat() and tool call resolves, run() makes exactly k chat()
\* calls and returns the k-th response's content if that is the first
\* response without tool calls (k <= 10); if the first 10 responses all carry
\* tool calls it makes exactly 10 chat() calls and returns the sentinel
\* "Max iterations reached." as a value.
C5_IterationCount ==
    /\ chatCalls <= MaxIterations
    /\ toolTurns = MaxIterations => apc \in {"tools", "done"}
    /\ apc = "done" =>
          /\ runResult.kind = "value"
          /\ IF toolTurns < MaxIterations
             THEN /\ chatCalls = toolTurns + 1
                  /\ runResult.value = response.content
                  /\ response.content = chatCalls
                  /\ response.toolCalls = NoToolCalls
             ELSE /\ chatCalls = MaxIterations
                  /\ iterations = MaxIterations
                  /\ runResult.value = Sentinel

\* C5 witness: ten responses with tool calls, then the sentinel.
C5_Witness ==
    /\ apc = "done"
    /\ toolTurns = 10
    /\ chatCalls = 10
    /\ runResult = [kind |-> "value", value |-> Sentinel]

\* C5: the other case is reached too, the fourth response being the final answer.
C5_FinalAnswerReached ==
    /\ apc = "done"
    /\ chatCalls = 4
    /\ runResult = [kind |-> "value", value |-> 4]

FailedCall(p) == FindTool(p.call.name) = 0 \/ ~p.call.valid \/ p.threw

\* C6: a failed tool call (unregistered name, validation failure, execute
\* rejecting) never makes run() raise: it yields a ToolResult with isError =
\* true for that call, the results of the turn are appended as one message,
\* the iteration is counted and the loop goes on to its next chat() call
\* (to the sentinel once the tenth iteration is counted), whether or not
\* every call of the turn failed.
C6_ToolFailuresContained ==
    /\ [](\A i \in 1..Len(toolState) :
             (toolState[i].st = "resolved" /\ FailedCall(toolState[i])) =>
                 /\ toolState[i].result.isError = TRUE
                 /\ toolState[i].result.toolCallId = toolState[i].call.id)
    /\ [][apc' = "raised" => apc = "chat"]_vars
    /\ [][ (apc = "tools" /\ AllResolved) =>
              /\ apc' \in {"chat", "done"}
              /\ lastAdded' = Msg("user", ResultsContent(ToolResults), NoToolCalls)
              /\ Len(ToolResults) = Len(response.toolCalls)
              /\ iterations' = iterations + 1
              /\ IF iterations' < MaxIterations
                 THEN apc' = "chat" /\ chatCalls' = chatCalls + 1
                 ELSE apc' = "done" /\ runResult' = [kind |-> "value", value |-> Sentinel] ]_vars

\* C6 witness: both tool calls of the first turn failed, one unregistered and
\* one thrown by execute, and the second chat() call has been issued.
C6_Witness ==
    /\ apc = "chat"
    /\ chatCalls = 2
    /\ lastAdded.content.isArray
    /\ lastAdded.content.value =
          <<[toolCallId |-> <<1, 1>>, content |-> "not found", isError |-> TRUE],
            [toolCallId |-> <<1, 2>>, content |-> "error message", isError |-> TRUE]>>

\* C11: for any list of tool calls in one turn and any completion order of
\* their executions, the ToolResult sequence appended to the buffer has the
\* length and the order of the tool-call list: the i-th result's toolCallId
\* is the i-th call's id.
C11_ResultsInCallOrder ==
    [][ (apc = "tools" /\ AllResolved) =>
          LET calls == response.toolCalls
              added == lastAdded'
          IN  /\ added.role = "user"
              /\ added.content.isArray
              /\ Len(added.content.value) = Len(calls)
              /\ \A i \in 1..Len(calls) :
                    added.content.value[i].toolCallId = calls[i].id ]_vars

\* C11 witness: both executions of a turn have settled, the second call's
\* before the first call's, and Promise.all gives the results in call order.
C11_Witness ==
    /\ apc = "tools"
    /\ AllResolved
    /\ Len(toolState) = 2
    /\ toolState[1].settledAt = 2
    /\ toolState[2].settledAt = 1
    /\ ToolResults[1].toolCallId = response.toolCalls[1].id
    /\ ToolResults[2].toolCallId = response.toolCalls[2].id

\* C21: within one turn the assistant message with the tool calls is in the
\* buffer while the tools of the turn execute; the results are appended, all
\* in one user message, only by a step that finds every call of the turn
\* resolved; that step counts the iteration, and chat() is called again only
\* by that step (or by the start of run()).
C21_TurnOrder ==
    /\ [](apc = "tools" =>
             /\ response.toolCalls # NoToolCalls
             /\ Len(toolState) = Len(response.toolCalls)
             /\ lastAdded = Msg("assistant", TextContent(response.content),
                                response.toolCalls))
    /\ [][ (apc = "tools" /\ apc' # "tools") =>
              /\ \A i \in 1..Len(toolState) : toolState[i].st = "resolved"
              /\ lastAdded' = Msg("user",
                                  ResultsContent([i \in 1..Len(toolState) |->
                                                     toolState[i].result]),
                                  NoToolCalls)
              /\ messages' = AddMessage(messages, maxMessages, lastAdded')
              /\ iterations' = iterations + 1 ]_vars
    /\ [][ chatCalls' # chatCalls =>
              /\ chatCalls' = chatCalls + 1
              /\ apc \in {"idle", "tools"}
              /\ apc = "tools" => (iterations' = iterations + 1
                                     /\ lastAdded'.content.isArray) ]_vars

\* C21 witness: a turn with two executed calls is over: its results are the
\* last message appended, one iteration is counted and the second chat() call
\* has been issued.
C21_Witness ==
    /\ apc = "chat"
    /\ chatCalls = 2
    /\ iterations = 1
    /\ toolTurns = 1
    /\ lastAdded.content.isArray
    /\ Len(lastAdded.content.value) = 2
    /\ \A k \in 1..2 : lastAdded.content.value[k].isError = FALSE

\* C22: execute is invoked for a call only if its name is registered and its
\* arguments pass the tool's schema; a call to an unregistered name or with
\* invalid arguments has a result with isError true and no execute invoked;
\* the result of an execute that returned has isError false (unset).
C22_ExecuteOnlyIfValid ==
    \A i \in 1..Len(toolState) :
        LET c == toolState[i].call
            accepted == FindTool(c.name) # 0 /\ c.valid
        IN  /\ c.id \in executed => accepted
            /\ ~accepted => /\ toolState[i].st = "resolved"
                            /\ toolState[i].result.isError = TRUE
                            /\ toolState[i].result.toolCallId = c.id
                            /\ c.id \notin executed
            /\ (toolState[i].st = "resolved" /\ c.id \in executed /\ ~toolState[i].threw) =>
                   toolState[i].result.isError = FALSE

\* C22 witness: a turn with a call whose arguments are invalid (error result,
\* nothing executed) and a valid call whose execute has returned.
C22_Witness ==
    /\ apc = "tools"
    /\ Len(toolState) = 2
    /\ FindTool(toolState[1].call.name) # 0
    /\ ~toolState[1].call.valid
    /\ toolState[1].result.isError = TRUE
    /\ toolState[1].call.id \notin executed
    /\ toolState[2].call.id \in executed
    /\ toolState[2].st = "resolved"
    /\ ~toolState[2].threw
    /\ toolState[2].result.isError = FALSE

\* C23: while the tools of a turn execute, every call that has an executable
\* tool has had its execute invoked, whichever of the others are still
\* running: no execute waits for another to complete, so as long as the turn
\* is not complete some started execute is there to settle.
C23_AllStartedBeforeAnyAwaited ==
    apc = "tools" =>
        /\ \A i \in 1..Len(toolState) :
              /\ toolState[i].st \in {"running", "resolved"}
              /\ (FindTool(toolState[i].call.name) # 0 /\ toolState[i].call.valid) =>
                     toolState[i].call.id \in executed
        /\ (\E i \in 1..Len(toolState) : toolState[i].st # "resolved") =>
              (\E i \in 1..Len(toolState) : toolState[i].st = "running")

\* C23 witness: two executes of one turn are running at once, neither has
\* settled.
C23_Witness ==
    /\ apc = "tools"
    /\ Len(toolState) = 2
    /\ toolState[1].st = "running"
    /\ toolState[2].st = "running"
    /\ SettledCount = 0
    /\ executed = {toolState[1].call.id, toolState[2].call.id}

\* the results of message m answer the tool calls of message a
Answers(m, a) ==
    /\ a.role = "assistant"
    /\ Len(a.toolCalls) = Len(m.content.value)
    /\ \A k \in 1..Len(a.toolCalls) : a.toolCalls[k].id = m.content.value[k].toolCallId

\* C18: in every buffer state reached by run(), for any maxMessages >= 1 and
\* also after pruning, every message with toolCalls has role assistant, and
\* every message whose content is a ToolResult sequence is preceded in the
\* buffer by the assistant message whose toolCalls those results answer.
C18_ToolResultsFollowCalls ==
    \A i \in 1..Len(messages) :
        /\ messages[i].toolCalls # NoToolCalls => messages[i].role = "assistant"
        /\ messages[i].content.isArray =>
              \E j \in 1..(i - 1) : Answers(messages[i], messages[j])

\* C18, what the code does instead: with maxMessages = 2 the second response
\* pushed the first response out of the buffer, and the buffer given to the
\* next chat() call starts with the results of the first turn.
C18_OrphanResultsReached ==
    /\ maxMessages = 2
    /\ apc = "tools"
    /\ chatCalls = 2
    /\ Len(messages) = 2
    /\ messages[1].content.isArray
    /\ messages[2].role = "assistant"

\* C25: on either provider an HTTP answer with a non-success status s reaches
\* chat() as an error that carries s, so that 401/403 becomes a
\* CarrotAuthError, a 404 is not followed by another invocation of the same
\* model, and a 429 or a 5xx is followed by one when retries allow.
C25_StatusSurfaced ==
    /\ (primaryError # NoError /\ primaryError.http \in (FailureStatus \ {NoStatus})) =>
          /\ primaryError.status = primaryError.http
          /\ primaryError.http \in {401, 403} => primaryError.class = "CarrotAuthError"
    /\ firstStatus = 404 => PrimaryInvocations = 1
    /\ (firstStatus \in {429, 500} /\ retries >= 1 /\ PrimaryInvocations = 1) =>
          (phase = 0 /\ cpc \in {"backoff", "attempt"})

\* C25, what the code does instead: on Ollama the primary model answered 401
\* and chat() caught a plain Error without a status.
C25_StatusLostReached ==
    /\ provider = "ollama"
    /\ primaryError # NoError
    /\ primaryError.http = 401
    /\ primaryError.status = NoStatus
    /\ primaryError.class = "Error"

(***************************************************************************)
(* Claims on chat() called on the array of a ConversationHistory           *)
(***************************************************************************)
\* C24: every invocation of one chat() call, retry or fallback, sends the
\* message sequence that options.messages held when chat() was called, also
\* when messages are appended to the ConversationHistory during the call.
C24_RequestIsSnapshot ==
    \A i \in 1..Len(sent) : sent[i] = snapshot

\* C24, what the code does instead: the first attempt sent the prompt alone,
\* a message was appended to the history while the call was in progress, and
\* the next attempt sent the prompt followed by that message.
C24_LaterAttemptSeesAppendReached ==
    /\ Len(sent) = 2
    /\ sent[1] = snapshot
    /\ Len(sent[2]) = Len(snapshot) + 1
    /\ sent[2][Len(sent[2])].content.value = 1

(***************************************************************************)
(* Claims on CarrotAI.chatStream                                           *)
(***************************************************************************)
\* C26: one chatStream call makes one backend invocation, of the model it
\* resolved, whatever retries and fallbackModels are among its options: when
\* the stream fails, at its opening or later, nothing more is invoked and the
\* error raised is the adapter's, not classified (a 401 or 403 is not a
\* CarrotAuthError, a 429 not a CarrotRateLimitError).
C26_StreamInvokesOnce ==
    /\ spc = "called" => invoked = <<>>
    /\ spc # "called" => invoked = <<[model |-> PrimaryModel, phase |-> 0]>>
    /\ spc = "error" =>
          /\ chatResult.kind = "error"
          /\ chatResult.error.class \notin {"CarrotAuthError", "CarrotRateLimitError"}
          /\ chatResult.error.attempt = 1
    /\ spc # "error" => chatResult.kind = "none"
    /\ cpc = "idle"
    /\ phase = 0

\* C26 witness: a Bedrock stream called with the default retries and two
\* fallback models failed to open with a 401: one invocation was made and the
\* error is the SDK's.
C26_Witness ==
    /\ provider = "bedrock"
    /\ retries = DefaultRetries
    /\ Len(fallbackModels) = 2
    /\ spc = "error"
    /\ failure = "open"
    /\ chatResult.error.http = 401
    /\ chatResult.error.status = 401
    /\ chatResult.error.class = "Error"
    /\ Len(invoked) = 1

\* what the generator yields when one read delivers the whole body
WholeBodyEvents ==
    ProcessLines(SelectSeq(SplitLines(Wire(script)), NonBlank), script).events

\* C27: on Ollama the events yielded and the way the stream ends depend on
\* the lines sent only, not on where the reads cut the byte stream: no
\* splitting ends the stream with a decoding error, and a stream read to its
\* end has yielded the events of its lines, as when read in one piece, and done.
C27_SplitIndependent ==
    provider = "ollama" =>
        /\ failure # "decode"
        /\ spc = "done" => events = Append(WholeBodyEvents, DoneEvent)

\* C27, what the code does instead: the server sent one line with content, a
\* read ended inside the line, JSON.parse threw on the piece and the stream
\* raised without having yielded the content.
C27_CutLineReached ==
    /\ provider = "ollama"
    /\ script = <<"content">>
    /\ spc = "error"
    /\ failure = "decode"
    /\ ~aligned
    /\ events = <<>>
    /\ WholeBodyEvents = <<ContentEvent(1)>>

\* the chunks or lines that carry non-empty content
ContentIndexes == {i \in 1..Len(script) : script[i] \in {"text", "content"}}

\* the backend sends content chunks and then its terminal marker: messageStop,
\* possibly followed by the metadata chunk, on Bedrock; the done line on Ollama
ContentThenTerminal ==
    IF provider = "bedrock"
    THEN \E n \in 0..(Len(script) - 1) :
            /\ \A i \in 1..n : script[i] \in {"text", "empty"}
            /\ script[n + 1] = "stop"
            /\ Len(script) = n + 1 \/ (Len(script) = n + 2 /\ script[n + 2] = "usage")
    ELSE /\ Len(script) >= 1
         /\ script[Len(script)] = "done"
         /\ \A i \in 1..(Len(script) - 1) : script[i] \in {"content", "empty"}

DoneEvents == Cardinality({k \in 1..Len(events) : events[k] = DoneEvent})

C9_OllamaReached ==
    /\ spc = "done"
    /\ provider = "ollama"
    /\ script = <<"content", "content", "content", "done">>
    /\ events = <<ContentEvent(1), ContentEvent(2), ContentEvent(3), UsageEvent, DoneEvent>>

\* the tool calls the backend delivered whole: a contentBlockStart with
\* toolUse, one or more input fragments, and the contentBlockStop
ToolCallsDelivered ==
    Cardinality({i \in 1..Len(script) :
        /\ script[i] = "toolUse"
        /\ \E k \in (i + 2)..Len(script) :
              /\ script[k] = "blockStop"
              /\ \A j \in (i + 1)..(k - 1) : script[j] = "toolInput"})

ToolCallEvents == Cardinality({k \in 1..Len(events) : events[k].type = "tool_call"})

\* C16: when the backend delivers a tool call as fragments spread over
\* several chunks, chatStream buffers them and yields exactly one tool_call
\* event with the complete ToolCall once the call is complete, before done.
C16_ToolCallAssembled ==
    (spc = "done" /\ provider = "bedrock") =>
        /\ ToolCallEvents = ToolCallsDelivered
        /\ events[Len(events)] = DoneEvent

\* C16, what the code does instead: a stream that delivered a whole tool call
\* ended with done as its only event.
C16_ToolCallDroppedReached ==
    /\ spc = "done"
    /\ provider = "bedrock"
    /\ script = <<"toolUse", "toolInput", "blockStop", "stop">>
    /\ events = <<DoneEvent>>

\* C10: a stream that ends without error ends with exactly one done event
\* and yields nothing after it; a stream in which the backend or the decoding
\* of a chunk raises yields no done event and nothing after the error.
C10_DoneOnlyOnSuccess ==
    /\ [](spc = "done" =>
             /\ Len(events) >= 1
             /\ events[Len(events)] = DoneEvent
             /\ DoneEvents = 1)
    /\ [](spc # "done" => DoneEvents = 0)
    /\ [][(spc = "done" \/ spc = "error") => (events' = events /\ spc' = spc)]_vars

\* C10 witness: a read that cut a line made JSON.parse throw after events
\* had been yielded.
C10_Witness ==
    /\ spc = "error"
    /\ failure = "decode"
    /\ Len(events) >= 2
    /\ DoneEvents = 0

=============================================================================
